---- MODULE Spec2Model ----
(***************************************************************************)
(* Dependency-graph construction and rendering of main.py:                 *)
(*   GraphBuilder.build_dependency_graph  (iterative DFS, cycle report)    *)
(*   generate_mermaid_graph               (edge lines, de-duplicated)      *)
(*   generate_ascii_tree                  (explicit-stack tree rendering)  *)
(*                                                                         *)
(* A Python dict is modelled as a sequence of <<key, value>> pairs with    *)
(* distinct keys, in insertion order (the order dict iteration uses).      *)
(* Package names are strings; f-string formatting is string concatenation. *)
(***************************************************************************)
EXTENDS Integers, Sequences, FiniteSets, TLC

\* ------------------------------------------------------------------ bounds

\* Longest dependency list of one package in a test graph file.
MaxDeps == 2

\* Largest number of dependency entries in a test graph file.
MaxEdges == 4

\* Longest dict handed to generate_mermaid_graph.
MaxMermaidKeys == 2

\* The ASCII walk is observed until it has rendered this many child lines.
MaxLines == 7

\* Package names of the test graph files, in ascending (lexicographic) order.
NameOrder == <<"A", "B", "C">>

Names == {NameOrder[i] : i \in DOMAIN NameOrder}

\* The packages a traversal can start from: --start-package, or
\* CONFIG["package_name"] without it.
StartPackages == Names

\* Package names handed to the Mermaid renderer: any stripped, non-empty text
\* without ':' or ',' can be a name in the test graph file.
MermaidNames == {"A", "B", "C", "A --> B", "B --> C"}

\* ------------------------------------------------------------ dict helpers

SeqsUpTo(S, n) == UNION {[1..k -> S] : k \in 0..n}

Keys(d) == {d[i][1] : i \in DOMAIN d}

Has(d, k) == \E i \in DOMAIN d : d[i][1] = k

Get(d, k, default) ==
    IF Has(d, k) THEN d[CHOOSE i \in DOMAIN d : d[i][1] = k][2] ELSE default

AppendTo(d, k, v) ==
    [i \in DOMAIN d |-> IF d[i][1] = k THEN <<k, Append(d[i][2], v)>> ELSE d[i]]

RECURSIVE EdgeCount(_)
EdgeCount(d) ==
    IF d = <<>> THEN 0 ELSE Len(Head(d)[2]) + EdgeCount(Tail(d))

Rank(n) == CHOOSE i \in DOMAIN NameOrder : NameOrder[i] = n

\* sorted(...) of a set of names: ascending sequence without repetition.
RECURSIVE Sorted(_)
Sorted(S) ==
    IF S = {} THEN <<>>
    ELSE LET m == CHOOSE x \in S : \A y \in S : Rank(x) <= Rank(y)
         IN  <<m>> \o Sorted(S \ {m})

\* ----------------------------------------------------------------- state

VARIABLES
    pc,               \* position in the build: "new" (loading), "dfs", "done",
                      \* "error" (KeyError raised); "idle" when no build runs
    start_package,    \* GraphBuilder.start_package
    graph,            \* GraphBuilder.graph, the loaded test graph
    stack,            \* DFS frames [node, idx]: idx children already taken
    visited,
    recursion_stack,
    full_graph,
    diagnostics,      \* the packages printed by "CYCLE DETECTED", in order
    m_graph,          \* argument of generate_mermaid_graph
    mermaid_code,     \* its result, as the sequence of lines joined by "\n"
    m_pc,
    a_graph,          \* arguments of generate_ascii_tree
    a_start,
    a_stack,          \* frames [node, prefix]
    visited_viz,
    tree_lines,
    a_pc

buildVars == <<pc, start_package, graph, stack, visited, recursion_stack,
               full_graph, diagnostics>>
mermaidVars == <<m_graph, mermaid_code, m_pc>>
asciiVars == <<a_graph, a_start, a_stack, visited_viz, tree_lines, a_pc>>
vars == <<buildVars, mermaidVars, asciiVars>>

\* ------------------------------------------------------ _load_test_graph

\* self.graph[parent] = dependencies: a new key goes last, a known key keeps
\* its place and takes the new value.
Put(d, k, v) ==
    IF Has(d, k)
    THEN [i \in DOMAIN d |-> IF d[i][1] = k THEN <<k, v>> ELSE d[i]]
    ELSE Append(d, <<k, v>>)

\* One line "parent: dep1, dep2" (or "parent" alone, deps empty) of the test
\* graph file is read.  The files considered list each package at most once,
\* in ascending order of the names, and hold at most MaxEdges dependencies.
LoadLine ==
    /\ pc = "new"
    /\ \E parent \in Names, deps \in SeqsUpTo(Names, MaxDeps) :
          /\ \A k \in Keys(graph) : Rank(k) < Rank(parent)
          /\ EdgeCount(graph) + Len(deps) <= MaxEdges
          /\ graph' = Put(graph, parent, deps)
    /\ UNCHANGED <<pc, start_package, stack, visited, recursion_stack,
                   full_graph, diagnostics, mermaidVars, asciiVars>>

\* ------------------------------------------------- build_dependency_graph

\* iter(self.graph.get(pkg, [])): the list a frame for pkg iterates over.
DepsOf(pkg) == Get(graph, pkg, <<>>)

\* full_graph = {pkg: [] for pkg in self.graph.keys()}, plus the start package.
InitFullGraph(g, start) ==
    LET base == [i \in DOMAIN g |-> <<g[i][1], <<>>>>]
    IN  IF Has(base, start) THEN base ELSE Append(base, <<start, <<>>>>)

\* The file is read to its end; the DFS state is set up (lines 63-69).
BuildStart ==
    /\ pc = "new"
    /\ stack' = <<[node |-> start_package, idx |-> 0]>>
    /\ visited' = {}
    /\ recursion_stack' = {start_package}
    /\ full_graph' = InitFullGraph(graph, start_package)
    /\ pc' = "dfs"
    /\ UNCHANGED <<start_package, graph, diagnostics, mermaidVars, asciiVars>>

Top == stack[Len(stack)]

\* next(children_iterator) yields a child (no StopIteration).
HasNext == Top.idx < Len(DepsOf(Top.node))

NextChild == DepsOf(Top.node)[Top.idx + 1]

\* The top frame with its iterator advanced by one.
Advanced == [stack EXCEPT ![Len(stack)].idx = @ + 1]

EnsureKeyMissing(fg, child) == fg

\* if child not in full_graph: full_graph[child] = []
EnsureKey(fg, child) ==
    IF Has(fg, child) THEN fg ELSE Append(fg, <<child, <<>>>>)

\* full_graph[parent].append(child), after the child's key is ensured.
RecordEdge(fg, parent, child) == AppendTo(EnsureKey(fg, child), parent, child)

OnCurrentPathOrVisited(child, rs, vis) == child \in rs \cup vis

\* if child in recursion_stack
OnCurrentPath(child, rs, vis) == child \in rs

MarkOnPathForgotten(rs, child) == rs

\* recursion_stack.add(child)
MarkOnPath(rs, child) == rs \cup {child}

PopFrameKept(s) == s

\* stack.pop()
PopFrame(s) == SubSeq(s, 1, Len(s) - 1)

\* One loop iteration whose child is on the current path: the edge is
\* recorded, the cycle is printed, and the loop continues.
DfsCycle ==
    /\ pc = "dfs" /\ stack # <<>> /\ HasNext
    /\ OnCurrentPath(NextChild, recursion_stack, visited)
    /\ full_graph' = RecordEdge(full_graph, Top.node, NextChild)
    /\ diagnostics' = Append(diagnostics, NextChild)
    /\ stack' = Advanced
    /\ UNCHANGED <<pc, start_package, graph, visited, recursion_stack,
                   mermaidVars, asciiVars>>

\* One loop iteration whose child is not on the current path: the edge is
\* recorded and a frame for the child is pushed.
DfsPush ==
    /\ pc = "dfs" /\ stack # <<>> /\ HasNext
    /\ ~OnCurrentPath(NextChild, recursion_stack, visited)
    /\ full_graph' = RecordEdge(full_graph, Top.node, NextChild)
    /\ stack' = Append(Advanced, [node |-> NextChild, idx |-> 0])
    /\ recursion_stack' = MarkOnPath(recursion_stack, NextChild)
    /\ visited' = IF ~Has(graph, NextChild) /\ NextChild \notin visited
                  THEN visited \cup {NextChild} ELSE visited
    /\ UNCHANGED <<pc, start_package, graph, diagnostics, mermaidVars, asciiVars>>

\* One loop iteration on an exhausted iterator (StopIteration).
\* set.remove raises KeyError for a missing element; nothing catches it
\* inside build_dependency_graph.
DfsPop ==
    /\ pc = "dfs" /\ stack # <<>> /\ ~HasNext
    /\ IF Top.node \in recursion_stack
       THEN /\ recursion_stack' = recursion_stack \ {Top.node}
            /\ visited' = visited \cup {Top.node}
            /\ stack' = PopFrame(stack)
            /\ pc' = pc
       ELSE /\ pc' = "error"
            /\ UNCHANGED <<recursion_stack, visited, stack>>
    /\ UNCHANGED <<start_package, graph, full_graph, diagnostics,
                   mermaidVars, asciiVars>>

\* The stack is empty: return full_graph.
BuildReturn ==
    /\ pc = "dfs" /\ stack = <<>>
    /\ pc' = "done"
    /\ UNCHANGED <<start_package, graph, stack, visited, recursion_stack,
                   full_graph, diagnostics, mermaidVars, asciiVars>>

MermaidIdle == m_graph = <<>> /\ mermaid_code = <<>> /\ m_pc = "idle"

AsciiIdle ==
    /\ a_graph = <<>> /\ a_start = "A" /\ a_stack = <<>>
    /\ visited_viz = {} /\ tree_lines = <<>> /\ a_pc = "idle"

InitBuild ==
    /\ pc = "new"
    /\ start_package \in StartPackages
    /\ graph = <<>>
    /\ stack = <<>>
    /\ visited = {}
    /\ recursion_stack = {}
    /\ full_graph = <<>>
    /\ diagnostics = <<>>
    /\ MermaidIdle
    /\ AsciiIdle

NextBuild == LoadLine \/ BuildStart \/ DfsCycle \/ DfsPush \/ DfsPop \/ BuildReturn

SpecBuild == InitBuild /\ [][NextBuild]_vars

SpecBuildFair == SpecBuild /\ WF_vars(NextBuild)

\* ------------------------------------------------ properties of the build

Range(q) == {q[i] : i \in DOMAIN q}

\* The packages held in the frames of the DFS stack.
Nodes(s) == {s[i].node : i \in DOMAIN s}

\* The packages reachable from the set S along the loaded graph, S included.
RECURSIVE ReachFrom(_)
ReachFrom(S) ==
    LET T == S \cup UNION {Range(DepsOf(n)) : n \in S}
    IN  IF T = S THEN S ELSE ReachFrom(T)

\* No package of the loaded graph depends, directly or not, on itself.
Acyclic == \A n \in Names : n \notin ReachFrom(Range(DepsOf(n)))

RECURSIVE SumDeps(_)
SumDeps(S) ==
    IF S = {} THEN 0
    ELSE LET n == CHOOSE x \in S : TRUE
         IN  Len(DepsOf(n)) + SumDeps(S \ {n})

\* Number of dependency entries of the packages reachable from the start.
ReachableEdgeCount == SumDeps(ReachFrom({start_package}))

\* C1: the returned map is closed: the start package and every package in an
\* adjacency list of the result are keys of the result.
C1_Closed ==
    pc = "done" =>
        /\ Has(full_graph, start_package)
        /\ \A i \in DOMAIN full_graph :
              \A c \in Range(full_graph[i][2]) : Has(full_graph, c)

\* A build has returned a map in which a package is a dependency without
\* having a line of its own in the test graph file.
C1_Witness ==
    /\ pc = "done"
    /\ \E i \in DOMAIN full_graph :
          \E c \in Range(full_graph[i][2]) : ~Has(graph, c)

\* C2: on an acyclic source graph the returned map holds exactly as many
\* edges as there are source edges reachable from the start.
C2_EdgeCountClaim ==
    (pc = "done" /\ Acyclic) => EdgeCount(full_graph) = ReachableEdgeCount

\* C3: the build never fails and always returns, cycles and self-loops included.
C3_Terminates == [](pc # "error") /\ <>(pc = "done")

\* A build of a graph in which the start package depends on itself has returned.
C3_Witness ==
    /\ pc = "done"
    /\ start_package \in Range(DepsOf(start_package))
    /\ diagnostics # <<>>

\* The loop iteration about to run takes a child from the top frame.
TakesChild == pc = "dfs" /\ stack # <<>> /\ HasNext

\* C4: an iteration that takes child c of parent p records the edge p -> c;
\* it prints a cycle and pushes nothing exactly when c is in a frame of the
\* stack, and otherwise pushes a frame for c and prints nothing.  No other
\* step prints.  An acyclic graph prints nothing; the self-loop A: A, built
\* from A, prints exactly once.
C4_PathBasedCycles ==
    /\ [][ IF TakesChild
           THEN /\ Get(full_graph', Top.node, <<>>)
                      = Append(Get(full_graph, Top.node, <<>>), NextChild)
                /\ EdgeCount(full_graph') = EdgeCount(full_graph) + 1
                /\ IF NextChild \in Nodes(stack)
                   THEN /\ diagnostics' = Append(diagnostics, NextChild)
                        /\ stack' = Advanced
                   ELSE /\ diagnostics' = diagnostics
                        /\ stack' = Append(Advanced, [node |-> NextChild, idx |-> 0])
           ELSE diagnostics' = diagnostics ]_vars
    /\ [](Acyclic => diagnostics = <<>>)
    /\ []((pc = "done" /\ graph = << <<start_package, <<start_package>> >> >>)
             => Len(diagnostics) = 1)

\* A build of a graph without repeated list entries has returned that printed
\* a cycle and also expanded some package more than once (a package finished
\* earlier through one parent was pushed again through another).
C4_Witness ==
    /\ pc = "done"
    /\ diagnostics # <<>>
    /\ \A n \in Names : Cardinality(Range(DepsOf(n))) = Len(DepsOf(n))
    /\ \E n \in Names : Len(Get(full_graph, n, <<>>)) > Len(DepsOf(n))

\* C9: a package is never on the current path and finished at the same time.
C9_Disjoint == recursion_stack \cap visited = {}

\* C10: while the loop runs, recursion_stack is exactly the set of packages in
\* the frames, no package is in two frames, and the pop never raises KeyError.
C10_StackMirrorsPath ==
    /\ pc # "error"
    /\ pc = "dfs" =>
          /\ recursion_stack = Nodes(stack)
          /\ \A i, j \in DOMAIN stack : stack[i].node = stack[j].node => i = j

\* The loop is running three frames deep after a frame has been popped.
C10_Witness ==
    /\ pc = "dfs"
    /\ Len(stack) >= 3
    /\ \E n \in visited : Has(graph, n)

\* ------------------------------------------------ generate_mermaid_graph

\* The (parent, child) pairs of a dict in the order the two nested loops
\* visit them: keys in dict order, each list front to back.
RECURSIVE EdgesOf(_)
EdgesOf(d) ==
    IF d = <<>> THEN <<>>
    ELSE [j \in DOMAIN Head(d)[2] |-> <<Head(d)[1], Head(d)[2][j]>>]
         \o EdgesOf(Tail(d))

\* edge = f'{parent} --> {child}'
EdgeText(parent, child) == parent \o " --> " \o child

\* The loop body over the remaining pairs: a pair whose text is not in
\* unique_edges is appended as a line and its text added to the set.
RECURSIVE EmitEdges(_, _, _)
EmitEdges(edges, code, unique_edges) ==
    IF edges = <<>> THEN code
    ELSE LET edge == EdgeText(Head(edges)[1], Head(edges)[2])
         IN  IF edge \notin unique_edges
             THEN EmitEdges(Tail(edges), Append(code, "    " \o edge),
                            unique_edges \cup {edge})
             ELSE EmitEdges(Tail(edges), code, unique_edges)

generate_mermaid_graph(g) == EmitEdges(EdgesOf(g), <<"graph TD">>, {})

BuildIdle ==
    /\ pc = "idle" /\ start_package = "A" /\ graph = <<>> /\ stack = <<>>
    /\ visited = {} /\ recursion_stack = {} /\ full_graph = <<>>
    /\ diagnostics = <<>>

\* A dict of at most MaxMermaidKeys packages, each with at most MaxDeps
\* dependencies, is handed to the renderer.
InitMermaid ==
    /\ \E ks \in SeqsUpTo(MermaidNames, MaxMermaidKeys) :
          /\ \A i, j \in DOMAIN ks : ks[i] = ks[j] => i = j
          /\ \E vs \in [DOMAIN ks -> SeqsUpTo(MermaidNames, MaxDeps)] :
                m_graph = [i \in DOMAIN ks |-> <<ks[i], vs[i]>>]
    /\ mermaid_code = <<>>
    /\ m_pc = "call"
    /\ BuildIdle
    /\ AsciiIdle

MermaidRender ==
    /\ m_pc = "call"
    /\ mermaid_code' = generate_mermaid_graph(m_graph)
    /\ m_pc' = "done"
    /\ UNCHANGED <<m_graph, buildVars, asciiVars>>

NextMermaid == MermaidRender

SpecMermaid == InitMermaid /\ [][NextMermaid]_vars

\* The pairs of a sequence of pairs, each once, in first-seen order.
RECURSIVE FirstSeen(_, _)
FirstSeen(edges, seen) ==
    IF edges = <<>> THEN <<>>
    ELSE IF Head(edges) \in seen THEN FirstSeen(Tail(edges), seen)
         ELSE <<Head(edges)>> \o FirstSeen(Tail(edges), seen \cup {Head(edges)})

\* C5: the output is the header line followed by one "parent --> child" line
\* per distinct (parent, child) pair of the map, in first-seen order.
C5_OneLinePerEdge ==
    m_pc = "done" =>
        LET pairs == FirstSeen(EdgesOf(m_graph), {})
        IN  mermaid_code =
              <<"graph TD">> \o
              [i \in DOMAIN pairs |-> "    " \o pairs[i][1] \o " --> " \o pairs[i][2]]

\* --------------------------------------------------- generate_ascii_tree

\* The text a child's subtree is indented with: "    " under a last child,
\* "|   " (a vertical bar) under any other.
Segment(connector) == IF connector = "last" THEN "blank" ELSE "bar"

\* The body of the for loop for the children from position i of the reversed
\* list on: st holds stack, visited_viz and tree_lines.  A child is marked
\* when it is already in visited_viz; it is pushed and its line is put at
\* the front of tree_lines in either case.
RECURSIVE RenderChildren(_, _, _, _)
RenderChildren(rev, i, prefix, st) ==
    IF i > Len(rev) THEN st
    ELSE LET child == rev[i]
             connector == IF i = 1 THEN "last" ELSE "branch"
             new_prefix == Append(prefix, Segment(connector))
             cycle_flag == child \in st.visited_viz
             line == [prefix |-> prefix, connector |-> connector,
                      child |-> child, cycle_flag |-> cycle_flag]
         IN  RenderChildren(rev, i + 1, prefix,
                [stack |-> Append(st.stack, [node |-> child, prefix |-> new_prefix]),
                 visited_viz |-> st.visited_viz \cup {child},
                 tree_lines |-> <<line>> \o st.tree_lines])

Reversed(q) == [i \in DOMAIN q |-> q[Len(q) + 1 - i]]

\* sorted(list(set(graph.get(current_node, []))))
ChildrenOf(g, node) == Sorted(Range(Get(g, node, <<>>)))

AsciiStart ==
    /\ a_pc = "call"
    /\ tree_lines' = <<>>
    /\ a_stack' = <<[node |-> a_start, prefix |-> <<>>]>>
    /\ visited_viz' = {a_start}
    /\ a_pc' = "walk"
    /\ UNCHANGED <<a_graph, a_start, buildVars, mermaidVars>>

\* One iteration of the while loop: pop a frame and render its children.
\* The walk is followed while fewer than MaxLines lines are rendered.
AsciiStep ==
    /\ a_pc = "walk" /\ a_stack # <<>>
    /\ Len(tree_lines) < MaxLines
    /\ LET top == a_stack[Len(a_stack)]
           st == RenderChildren(Reversed(ChildrenOf(a_graph, top.node)), 1,
                                top.prefix,
                                [stack |-> SubSeq(a_stack, 1, Len(a_stack) - 1),
                                 visited_viz |-> visited_viz,
                                 tree_lines |-> tree_lines])
       IN  /\ a_stack' = st.stack
           /\ visited_viz' = st.visited_viz
           /\ tree_lines' = st.tree_lines
    /\ UNCHANGED <<a_graph, a_start, a_pc, buildVars, mermaidVars>>

RootLine(start) ==
    [prefix |-> <<>>, connector |-> "root", child |-> start, cycle_flag |-> FALSE]

\* The stack is empty: the root goes to the front and the lines are returned.
AsciiReturn ==
    /\ a_pc = "walk" /\ a_stack = <<>>
    /\ tree_lines' = <<RootLine(a_start)>> \o tree_lines
    /\ a_pc' = "done"
    /\ UNCHANGED <<a_graph, a_start, a_stack, visited_viz, buildVars, mermaidVars>>

\* The dict with the keys K in ascending order and the values f[k].
DictOf(K, f) ==
    LET ks == Sorted(K) IN [i \in 1..Len(ks) |-> <<ks[i], f[ks[i]]>>]

\* The renderer is handed a closed map (as the build returns it) over a set
\* K of packages listed in ascending order, and a start package of the map.
InitAscii ==
    /\ \E K \in SUBSET Names :
          \E f \in [K -> SeqsUpTo(K, MaxDeps)] :
             /\ a_graph = DictOf(K, f)
             /\ EdgeCount(a_graph) <= MaxEdges
             /\ a_start \in K
    /\ a_stack = <<>>
    /\ visited_viz = {}
    /\ tree_lines = <<>>
    /\ a_pc = "call"
    /\ BuildIdle
    /\ MermaidIdle

NextAscii == AsciiStart \/ AsciiStep \/ AsciiReturn

SpecAscii == InitAscii /\ [][NextAscii]_vars

\* The map {A: [B], B: [A]}.
CycleAB == << <<"A", <<"B">> >>, <<"B", <<"A">> >> >>

\* C6: on {A: [B], B: [A]} with start A the walk halts with exactly three
\* lines: A, B as A's child, A under B with the marker; so the walk never
\* holds more than the two child lines.
C6_CycleThreeLines ==
    (a_graph = CycleAB /\ a_start = "A") =>
        IF a_pc = "done"
        THEN tree_lines =
               << RootLine("A"),
                  [prefix |-> <<>>, connector |-> "last", child |-> "B",
                   cycle_flag |-> FALSE],
                  [prefix |-> <<"blank">>, connector |-> "last", child |-> "A",
                   cycle_flag |-> TRUE] >>
        ELSE Len(tree_lines) <= 2

\* Line i is the only line at its place (same prefix and connector).
OnlyLineAtPlace(i) ==
    \A j \in DOMAIN tree_lines :
       (/\ tree_lines[j].prefix = tree_lines[i].prefix
        /\ tree_lines[j].connector = tree_lines[i].connector) => j = i

\* C7: no line is rendered beneath an occurrence that carries the marker.
C7_MarkedNotExpanded ==
    \A i \in DOMAIN tree_lines :
       (tree_lines[i].cycle_flag /\ OnlyLineAtPlace(i)) =>
          \A j \in DOMAIN tree_lines :
             tree_lines[j].prefix #
                Append(tree_lines[i].prefix, Segment(tree_lines[i].connector))

Front(q) == SubSeq(q, 1, Len(q) - 1)

\* Line j is the line of the occurrence that line i hangs under.
IsParentLine(j, i) ==
    IF tree_lines[i].prefix = <<>>
    THEN j = 1
    ELSE /\ j > 1
         /\ tree_lines[j].prefix = Front(tree_lines[i].prefix)
         /\ Segment(tree_lines[j].connector)
               = tree_lines[i].prefix[Len(tree_lines[i].prefix)]

\* C8: the returned lines start with the root and are in pre-order: each
\* line comes after its parent's line with only lines of the parent's
\* subtree in between, siblings ascend by name, and exactly the last sibling
\* has the terminal connector.
C8_PreOrder ==
    a_pc = "done" =>
        /\ tree_lines[1] = RootLine(a_start)
        /\ \A i \in 2..Len(tree_lines) :
              /\ \E j \in 1..(i - 1) :
                    /\ IsParentLine(j, i)
                    /\ \A k \in (j + 1)..(i - 1) :
                          Len(tree_lines[k].prefix) >= Len(tree_lines[i].prefix)
              /\ \A k \in (i + 1)..Len(tree_lines) :
                    tree_lines[k].prefix = tree_lines[i].prefix =>
                       Rank(tree_lines[i].child) < Rank(tree_lines[k].child)
              /\ tree_lines[i].connector = "last" <=>
                    ~\E k \in (i + 1)..Len(tree_lines) :
                        tree_lines[k].prefix = tree_lines[i].prefix

====
